---- MODULE Spec2Model ----
(***************************************************************************)
(* Bitsy: the two-layer rank-combined bit vector, the plain bit vector     *)
(* and the sampled two-layer select index.                                 *)
(*                                                                         *)
(* The machine word of the library is std::uint64_t.  The model keeps the  *)
(* layout, the index arithmetic and every shift and mask of the source,    *)
(* but instantiates it with a word of kWordWidth = 8 bits, so that a       *)
(* vector spanning several blocks and superblocks is a few dozen bits      *)
(* long.  The template arguments (BlockWidth, BlockHeaderWidth) are scaled *)
(* with the word: (16, 5) and (32, 6) are two- and four-word blocks with   *)
(* two blocks per superblock, as (512, 14) and (1024, 15) are eight- and   *)
(* sixteen-word blocks with 32 blocks per superblock; (24, 6) is a         *)
(* three-word block that does not divide the superblock, as (1536, 16).    *)
(* All words are taken modulo 2^kWordWidth.                                *)
(***************************************************************************)
EXTENDS Integers, Sequences, FiniteSets, TLC

\* ------------------------------------------------------------------ bounds
\* Longest bit vector that is constructed.
MaxLen == 37
\* Number of single-bit writes (set / unset / set(pos, value)) in one run.
MaxWrites == 1
\* Largest period of create_alternating_bitvec.
MaxPeriod == 3
\* Number of ranks above the total that a select query is asked with.
MaxExcess == 2
\* Number of buffers the StaticVector objects allocate in one run.
MaxAllocs == 2
\* Lengths of the vectors the reader threads are run on.
ReaderLengths == {MaxLen}

\* ------------------------------------------------------------ machine word
kWordWidth == 8
WordMod == 2 ^ kWordWidth
kOnes == WordMod - 1

\* What a read of uninitialised or out-of-bounds memory may return.
JunkWords == {0, 165}

VARIABLES
  cfg,              \* template arguments [BlockWidth, BlockHeaderWidth]
  junk,             \* the word an indeterminate read returns in this run
  length,           \* TwoLayerRankCombinedBitVector::_length
  num_blocks,       \* ::_num_blocks
  data,             \* ::_data
  num_superblocks,  \* ::_num_superblocks
  superblock_data,  \* ::_superblock_data
  plain_data,       \* BitVector::_data of a plain bit vector given the same writes
  sel,              \* the TwoLayerSelect built on the vector, or NoSelect
  written,          \* positions written since construction
  rank_sync,        \* update() ran after the last write
  sel_sync,         \* the select index was built after the last write
  nwrites,          \* single-bit writes so far
  last_op,          \* the last operation on the bit vector
  last_query,       \* the last query answered: its name, arguments and result
  readers,          \* per reader thread: the query it is in, or its last answer
  sv                \* StaticVector objects, the heap they allocate from, the last call

vars == <<cfg, junk, length, num_blocks, data, num_superblocks,
          superblock_data, plain_data, sel, written, rank_sync, sel_sync,
          nwrites, last_op, last_query, readers, sv>>

\* ------------------------------------------------------------ word algebra
Wrap(x) == x % WordMod

\* std::popcount, tabulated once over all words.
RECURSIVE popcount_of(_)
popcount_of(w) == IF w = 0 THEN 0 ELSE (w % 2) + popcount_of(w \div 2)

popcount_table == [w \in 0 .. kOnes |-> popcount_of(w)]

popcount(w) == popcount_table[w]

\* a & b, tabulated once over all pairs of words.
RECURSIVE BitAnd_of(_, _)
BitAnd_of(a, b) ==
  IF a = 0 \/ b = 0 THEN 0
  ELSE (a % 2) * (b % 2) + 2 * BitAnd_of(a \div 2, b \div 2)

BitAnd_table == [a \in 0 .. kOnes |-> [b \in 0 .. kOnes |-> BitAnd_of(a, b)]]

BitAnd(a, b) == BitAnd_table[a][b]

BitOr(a, b) == a + b - BitAnd(a, b)

BitNot(a) == kOnes - a

\* A shift by the word width or more is undefined: the result is indeterminate.
Shl(w, s) == IF s < kWordWidth THEN (w * 2 ^ s) % WordMod ELSE junk

Shr(w, s) == IF s < kWordWidth THEN w \div 2 ^ s ELSE junk

\* A read outside the buffer returns an indeterminate word.
ReadWord(buf, i) == IF i \in DOMAIN buf THEN buf[i] ELSE junk

\* A write outside the buffer does not change the buffer.
WriteWord(buf, i, w) == IF i \in DOMAIN buf THEN [buf EXCEPT ![i] = w] ELSE buf

\* ------------------------------------------------------------------- math
div_ceil(x, y) == (x \div y) + (IF x % y # 0 THEN 1 ELSE 0)

pow2(n) == 2 ^ n

setbits(num_set_bits, start) ==
  IF num_set_bits = 0 THEN 0
  ELSE Shl(Shr(kOnes, kWordWidth - num_set_bits), start)

\* --------------------------------------------- template-derived constants
kBlockWidth == cfg.BlockWidth
kBlockHeaderWidth == cfg.BlockHeaderWidth
kBlockDataWidth == kBlockWidth - kBlockHeaderWidth
kHeaderDataWidth == kWordWidth - kBlockHeaderWidth
kNumWordsPerBlock == kBlockWidth \div kWordWidth
kSuperblockWidth == pow2(kBlockHeaderWidth)
kNumBlocksPerSuperblock == kSuperblockWidth \div kBlockWidth
kNumWordsPerSuperblock == kSuperblockWidth \div kWordWidth
kSuperblockDataWidth ==
  kSuperblockWidth - kNumBlocksPerSuperblock * kBlockHeaderWidth

\* The static_asserts of the class template.
StaticAsserts(c) ==
  /\ c.BlockWidth % 2 = 0
  /\ c.BlockWidth > kWordWidth
  /\ c.BlockHeaderWidth <= kWordWidth
  /\ pow2(c.BlockHeaderWidth) > c.BlockWidth

\* The instantiations of the unit tests.
TestedConfigs ==
  { [BlockWidth |-> 16, BlockHeaderWidth |-> 5],
    [BlockWidth |-> 32, BlockHeaderWidth |-> 6] }

\* The instantiations of the rank benchmark: the block width of the last one
\* does not divide the superblock width.
BenchConfigs ==
  TestedConfigs \cup { [BlockWidth |-> 24, BlockHeaderWidth |-> 6] }

\* ------------------------------------------ TwoLayerRankCombinedBitVector
\* Word of the buffer and bit of the word that hold logical position pos.
num_word_of(pos) ==
  LET num_block == pos \div kBlockDataWidth
      block_pos == (pos % kBlockDataWidth) + kBlockHeaderWidth
      num_local_word == block_pos \div kWordWidth
  IN num_block * kNumWordsPerBlock + num_local_word

\* A bit index that ignores the block header: pos mod 64 instead of q mod 64.
word_pos_of_plain(pos) == pos % kWordWidth

word_pos_of(pos) ==
  ((pos % kBlockDataWidth) + kBlockHeaderWidth) % kWordWidth

\* A constructor that leaves the last real block as malloc returned it.
ctor_data_without_fill(len) ==
  [i \in 0 .. div_ceil(len, kBlockDataWidth) * kNumWordsPerBlock
             + kNumBlocksPerSuperblock * kNumWordsPerBlock - 1 |-> junk]

\* TwoLayerRankCombinedBitVector(length): malloc'ed buffers, last real block
\* zero-filled.
ctor_data(len) ==
  LET nb == div_ceil(len, kBlockDataWidth)
      size == nb * kNumWordsPerBlock + kNumBlocksPerSuperblock * kNumWordsPerBlock
  IN [i \in 0 .. size - 1 |->
        IF nb > 0 /\ i >= (nb - 1) * kNumWordsPerBlock
                  /\ i < nb * kNumWordsPerBlock
        THEN 0 ELSE junk]

ctor_superblock_data(len) ==
  [s \in 0 .. div_ceil(len, kSuperblockDataWidth) - 1 |-> junk]

unset_in(d, pos) ==
  LET mask == Shl(1, word_pos_of(pos))
  IN WriteWord(d, num_word_of(pos),
               BitAnd(ReadWord(d, num_word_of(pos)), BitNot(mask)))

\* A set that turns on the bit and every bit above it in the word.
set_in_and_above(d, pos) ==
  LET mask == Shl(kOnes, word_pos_of(pos))
  IN WriteWord(d, num_word_of(pos), BitOr(ReadWord(d, num_word_of(pos)), mask))

set_in(d, pos) ==
  LET mask == Shl(1, word_pos_of(pos))
  IN WriteWord(d, num_word_of(pos), BitOr(ReadWord(d, num_word_of(pos)), mask))

\* (w & ~mask) | (value & mask): the value is not negated into a full mask.
set_value_in_without_negation(d, pos, value) ==
  LET mask == Shl(1, word_pos_of(pos))
      w == ReadWord(d, num_word_of(pos))
  IN WriteWord(d, num_word_of(pos),
               BitOr(BitAnd(w, BitNot(mask)),
                     BitAnd(IF value THEN 1 ELSE 0, mask)))

\* (w & ~mask) | (-value & mask)
set_value_in(d, pos, value) ==
  LET mask == Shl(1, word_pos_of(pos))
      w == ReadWord(d, num_word_of(pos))
      neg == IF value THEN kOnes ELSE 0
  IN WriteWord(d, num_word_of(pos),
               BitOr(BitAnd(w, BitNot(mask)), BitAnd(neg, mask)))

is_set_in(d, pos) ==
  LET word == ReadWord(d, num_word_of(pos))
  IN BitAnd(Shr(word, word_pos_of(pos)), 1) = 1

is_set(pos) == is_set_in(data, pos)

\* -------------------------------------------------------------- BitVector
plain_ctor(len) == [i \in 0 .. div_ceil(len, kWordWidth) - 1 |-> junk]

plain_ctor_fill(len, set) ==
  [i \in 0 .. div_ceil(len, kWordWidth) - 1 |->
     setbits(IF set THEN kWordWidth ELSE 0, 0)]

plain_unset_in(d, pos) ==
  WriteWord(d, pos \div kWordWidth,
            BitAnd(ReadWord(d, pos \div kWordWidth),
                   BitNot(Shl(1, pos % kWordWidth))))

plain_set_in(d, pos) ==
  WriteWord(d, pos \div kWordWidth,
            BitOr(ReadWord(d, pos \div kWordWidth), Shl(1, pos % kWordWidth)))

plain_set_value_in(d, pos, value) ==
  LET num_word == pos \div kWordWidth
      mask == Shl(1, pos % kWordWidth)
      neg == IF value THEN kOnes ELSE 0
  IN WriteWord(d, num_word,
               BitOr(BitAnd(ReadWord(d, num_word), BitNot(mask)),
                     BitAnd(neg, mask)))

plain_is_set(pos) ==
  BitAnd(Shr(ReadWord(plain_data, pos \div kWordWidth), pos % kWordWidth), 1) = 1

\* ------------------------------------------------- update / rank queries
\* A block_popcount that does not shift the header out of the first word.
block_popcount_counting_header(d, i) ==
  LET RECURSIVE rest(_)
      rest(k) == IF k >= kNumWordsPerBlock THEN 0
                 ELSE popcount(ReadWord(d, i + k)) + rest(k + 1)
  IN Wrap(rest(0))

\* block_popcount(const Word* data): i is the index of the block's first word.
block_popcount_at(d, i) ==
  LET RECURSIVE rest(_)
      rest(k) == IF k >= kNumWordsPerBlock THEN 0
                 ELSE popcount(ReadWord(d, i + k)) + rest(k + 1)
  IN Wrap(popcount(Shr(ReadWord(d, i), kBlockHeaderWidth)) + rest(1))

\* A block_popcount(num_block) that counts the header bits as payload.
block_popcount_of_whole_block(d, num_block) ==
  block_popcount_counting_header(d, num_block * kNumWordsPerBlock)

\* block_popcount(num_block)
block_popcount(d, num_block) == block_popcount_at(d, num_block * kNumWordsPerBlock)

\* A header write that stores the block rank over the whole first word.
merge_header_overwriting(word, cur_block_rank) == cur_block_rank

\* (_data[i] & setbits(kHeaderDataWidth, kBlockHeaderWidth)) | cur_block_rank
merge_header(word, cur_block_rank) ==
  BitOr(BitAnd(word, setbits(kHeaderDataWidth, kBlockHeaderWidth)),
        cur_block_rank)

\* An iteration of the first loop that keeps counting across superblocks.
update_real_block_without_reset(st) ==
  LET is_superblock_word == (st.i % kNumWordsPerSuperblock) = 0
      cur_rank == IF is_superblock_word
                  THEN Wrap(st.cur_rank + st.cur_block_rank) ELSE st.cur_rank
      sbd == IF is_superblock_word
             THEN WriteWord(st.superblock_data, st.cur_num_super_block, cur_rank)
             ELSE st.superblock_data
      word0 == merge_header(ReadWord(st.data, st.i), st.cur_block_rank)
      d == WriteWord(st.data, st.i, word0)
  IN [i |-> st.i + kNumWordsPerBlock,
      data |-> d,
      superblock_data |-> sbd,
      cur_rank |-> cur_rank,
      cur_block_rank |-> Wrap(st.cur_block_rank + block_popcount_at(d, st.i)),
      cur_num_super_block |->
        st.cur_num_super_block + (IF is_superblock_word THEN 1 ELSE 0)]

\* One iteration of the first loop of update(): block whose first word is st.i.
update_real_block(st) ==
  LET is_superblock_word == (st.i % kNumWordsPerSuperblock) = 0
      cur_rank == IF is_superblock_word
                  THEN Wrap(st.cur_rank + st.cur_block_rank) ELSE st.cur_rank
      sbd == IF is_superblock_word
             THEN WriteWord(st.superblock_data, st.cur_num_super_block, cur_rank)
             ELSE st.superblock_data
      cur_block_rank == IF is_superblock_word THEN 0 ELSE st.cur_block_rank
      word0 == merge_header(ReadWord(st.data, st.i), cur_block_rank)
      d == WriteWord(st.data, st.i, word0)
  IN [i |-> st.i + kNumWordsPerBlock,
      data |-> d,
      superblock_data |-> sbd,
      cur_rank |-> cur_rank,
      cur_block_rank |-> Wrap(cur_block_rank + block_popcount_at(d, st.i)),
      cur_num_super_block |->
        st.cur_num_super_block + (IF is_superblock_word THEN 1 ELSE 0)]

\* An iteration of the second loop that writes 0 into every padding block.
update_virtual_block_zero(st) ==
  [st EXCEPT !.i = st.i + kNumWordsPerBlock,
             !.data = WriteWord(st.data, st.i, 0),
             !.cur_block_rank = 0]

\* One iteration of the second loop of update(): a virtual (padding) block.
update_virtual_block(st) ==
  LET is_superblock_word == (st.i % kNumWordsPerSuperblock) = 0
      cur_block_rank == IF is_superblock_word THEN 0 ELSE st.cur_block_rank
  IN [st EXCEPT !.i = st.i + kNumWordsPerBlock,
                !.data = WriteWord(st.data, st.i, cur_block_rank),
                !.cur_block_rank = cur_block_rank]

RECURSIVE update_real_loop(_, _)
update_real_loop(st, num_words) ==
  IF st.i < num_words
  THEN CHOOSE r \in { update_real_loop(nst, num_words) :
                      nst \in {update_real_block(st)} } : TRUE
  ELSE st

RECURSIVE update_virtual_loop(_, _)
update_virtual_loop(st, size) ==
  IF st.i < size
  THEN CHOOSE r \in { update_virtual_loop(nst, size) :
                      nst \in {update_virtual_block(st)} } : TRUE
  ELSE st

\* An update() whose running rank starts from the last superblock rank
\* stored by the previous call.
update_of_accumulating(d, sbd, nb) ==
  LET num_words == nb * kNumWordsPerBlock
      size == num_words + kNumBlocksPerSuperblock * kNumWordsPerBlock
      st0 == [i |-> 0, data |-> d, superblock_data |-> sbd,
              cur_rank |-> ReadWord(sbd, num_superblocks - 1),
              cur_block_rank |-> 0, cur_num_super_block |-> 0]
      st1 == update_real_loop(st0, num_words)
  IN CHOOSE r \in { [data |-> st2.data, superblock_data |-> st2.superblock_data] :
                     st2 \in {update_virtual_loop([st1 EXCEPT !.i = num_words],
                                                  size)} } : TRUE

\* update(): the buffers after the call, for nb real blocks.
update_of(d, sbd, nb) ==
  LET num_words == nb * kNumWordsPerBlock
      size == num_words + kNumBlocksPerSuperblock * kNumWordsPerBlock
      st0 == [i |-> 0, data |-> d, superblock_data |-> sbd, cur_rank |-> 0,
              cur_block_rank |-> 0, cur_num_super_block |-> 0]
      st1 == update_real_loop(st0, num_words)
  IN CHOOSE r \in { [data |-> st2.data, superblock_data |-> st2.superblock_data] :
                     st2 \in {update_virtual_loop([st1 EXCEPT !.i = num_words],
                                                  size)} } : TRUE

rank1(pos) ==
  LET num_block == pos \div kBlockDataWidth
      block_pos == (pos % kBlockDataWidth) + kBlockHeaderWidth
      num_word == block_pos \div kWordWidth
      word_pos == block_pos % kWordWidth
      num_superblock == pos \div kSuperblockDataWidth
      base == num_block * kNumWordsPerBlock
      first_word == ReadWord(data, base)
      rank_hdr == Wrap(ReadWord(superblock_data, num_superblock)
                     + BitAnd(first_word, setbits(kBlockHeaderWidth, 0)))
      RECURSIVE middle(_)
      middle(i) == IF i < num_word
                   THEN popcount(ReadWord(data, base + i)) + middle(i + 1)
                   ELSE 0
  IN IF num_word = 0
     THEN LET shift == (kWordWidth + kBlockHeaderWidth) - word_pos
          IN Wrap(rank_hdr
                  + popcount(Shl(Shr(first_word, kBlockHeaderWidth), shift))
                    * (IF word_pos # kBlockHeaderWidth THEN 1 ELSE 0))
     ELSE LET shift == kWordWidth - word_pos
          IN Wrap(rank_hdr
                  + popcount(Shr(first_word, kBlockHeaderWidth))
                  + middle(1)
                  + popcount(Shl(ReadWord(data, base + num_word), shift))
                    * (IF word_pos # 0 THEN 1 ELSE 0))

rank0(pos) == Wrap(pos - rank1(pos))

\* ---------------------------------------------------------- word_select1
\* The result of a query whose loop runs out of the buffer or never ends.
Undefined == 0 - 1

\* Linear scan (the build without PDEP): position of the rank-th set bit.
RECURSIVE word_select1_scan(_, _, _)
word_select1_scan(word, rank, pos) ==
  IF rank = 0 THEN Wrap(pos - 1)
  ELSE IF word = 0 THEN Undefined
  ELSE word_select1_scan(Shr(word, 1), rank - BitAnd(word, 1), pos + 1)

\* A scan that returns the number of bits consumed instead of the bit index.
word_select1_off_by_one(word, rank) ==
  IF word_select1_scan(word, rank, 0) = Undefined THEN Undefined
  ELSE Wrap(word_select1_scan(word, rank, 0) + 1)

word_select1(word, rank) == word_select1_scan(word, rank, 0)

\* _pdep_u64(src, mask): the low bits of src, deposited at the set bits of mask.
RECURSIVE pdep(_, _)
pdep(src, mask) ==
  IF mask = 0 THEN 0
  ELSE IF mask % 2 = 1
       THEN (src % 2) + 2 * pdep(src \div 2, mask \div 2)
       ELSE 2 * pdep(src, mask \div 2)

\* std::countr_zero
RECURSIVE countr_zero(_)
countr_zero(w) ==
  IF w = 0 THEN kWordWidth
  ELSE IF w % 2 = 1 THEN 0 ELSE 1 + countr_zero(w \div 2)

\* word_select1 of the build with PDEP: countr_zero(pdep(1 << (rank - 1), word))
word_select1_pdep(word, rank) ==
  countr_zero(pdep(Shl(1, Wrap(rank - 1)), word))

\* A binary search that compares with <= instead of <.
RECURSIVE word_select1_binary_le_loop(_, _, _, _)
word_select1_binary_le_loop(word, rank, pos, len) ==
  IF len > 1
  THEN LET half == len \div 2
       IN word_select1_binary_le_loop(
            word, rank,
            pos + (IF popcount(Shl(word, kWordWidth - (pos + half))) <= rank
                   THEN half ELSE 0),
            len - half)
  ELSE pos

word_select1_binary_le(word, rank) ==
  word_select1_binary_le_loop(word, rank, 0, kWordWidth)

\* word_select1<kUseBinarySearch = true>: the branchless binary search.
RECURSIVE word_select1_binary_loop(_, _, _, _)
word_select1_binary_loop(word, rank, pos, len) ==
  IF len > 1
  THEN LET half == len \div 2
       IN word_select1_binary_loop(
            word, rank,
            pos + (IF popcount(Shl(word, kWordWidth - (pos + half))) < rank
                   THEN half ELSE 0),
            len - half)
  ELSE pos

word_select1_binary(word, rank) ==
  word_select1_binary_loop(word, rank, 0, kWordWidth)

\* --------------------------------------------------------- TwoLayerSelect
NoSelect ==
  [built |-> FALSE, kUseBinarySearch |-> FALSE, kStride |-> 0,
   zero_samples |-> <<>>, one_samples |-> <<>>]

\* A handle_block that samples only when the total is above the threshold.
handle_block_above_threshold(st, stride, num_block, num_ones, num_zeros) ==
  LET total_ones == Wrap(st.total_ones + num_ones)
      total_zeros == Wrap(st.total_zeros + num_zeros)
      num_superblock == (num_block * kBlockDataWidth) \div kSuperblockDataWidth
      hit_one == total_ones > st.threshold_one
      hit_zero == total_zeros > st.threshold_zero
  IN [total_ones |-> total_ones,
      total_zeros |-> total_zeros,
      one_samples |-> IF hit_one
                      THEN WriteWord(st.one_samples, st.cur_one, num_superblock)
                      ELSE st.one_samples,
      cur_one |-> st.cur_one + (IF hit_one THEN 1 ELSE 0),
      threshold_one |-> st.threshold_one + (IF hit_one THEN stride ELSE 0),
      zero_samples |-> IF hit_zero
                       THEN WriteWord(st.zero_samples, st.cur_zero, num_superblock)
                       ELSE st.zero_samples,
      cur_zero |-> st.cur_zero + (IF hit_zero THEN 1 ELSE 0),
      threshold_zero |-> st.threshold_zero + (IF hit_zero THEN stride ELSE 0)]

\* A handle_block that samples the block index instead of the superblock
\* index.
handle_block_sampling_blocks(st, stride, num_block, num_ones, num_zeros) ==
  LET total_ones == Wrap(st.total_ones + num_ones)
      total_zeros == Wrap(st.total_zeros + num_zeros)
      hit_one == total_ones >= st.threshold_one
      hit_zero == total_zeros >= st.threshold_zero
  IN [total_ones |-> total_ones,
      total_zeros |-> total_zeros,
      one_samples |-> IF hit_one
                      THEN WriteWord(st.one_samples, st.cur_one, num_block)
                      ELSE st.one_samples,
      cur_one |-> st.cur_one + (IF hit_one THEN 1 ELSE 0),
      threshold_one |-> st.threshold_one + (IF hit_one THEN stride ELSE 0),
      zero_samples |-> IF hit_zero
                       THEN WriteWord(st.zero_samples, st.cur_zero, num_block)
                       ELSE st.zero_samples,
      cur_zero |-> st.cur_zero + (IF hit_zero THEN 1 ELSE 0),
      threshold_zero |-> st.threshold_zero + (IF hit_zero THEN stride ELSE 0)]

\* handle_block of TwoLayerSelect::update()
handle_block(st, stride, num_block, num_ones, num_zeros) ==
  LET total_ones == Wrap(st.total_ones + num_ones)
      total_zeros == Wrap(st.total_zeros + num_zeros)
      num_superblock == (num_block * kBlockDataWidth) \div kSuperblockDataWidth
      hit_one == total_ones >= st.threshold_one
      hit_zero == total_zeros >= st.threshold_zero
  IN [total_ones |-> total_ones,
      total_zeros |-> total_zeros,
      one_samples |-> IF hit_one
                      THEN WriteWord(st.one_samples, st.cur_one, num_superblock)
                      ELSE st.one_samples,
      cur_one |-> st.cur_one + (IF hit_one THEN 1 ELSE 0),
      threshold_one |-> st.threshold_one + (IF hit_one THEN stride ELSE 0),
      zero_samples |-> IF hit_zero
                       THEN WriteWord(st.zero_samples, st.cur_zero, num_superblock)
                       ELSE st.zero_samples,
      cur_zero |-> st.cur_zero + (IF hit_zero THEN 1 ELSE 0),
      threshold_zero |-> st.threshold_zero + (IF hit_zero THEN stride ELSE 0)]

RECURSIVE select_update_loop(_, _, _)
select_update_loop(st, stride, num_block) ==
  IF num_block < num_blocks - 1
  THEN LET num_ones == block_popcount(data, num_block)
           num_zeros == Wrap(kBlockDataWidth - num_ones)
       IN CHOOSE r \in { select_update_loop(nst, stride, num_block + 1) :
                          nst \in {handle_block(st, stride, num_block,
                                                num_ones, num_zeros)} } : TRUE
  ELSE st

\* An update() whose first thresholds are one stride instead of 0.
select_update_of_from_stride(zs, os, stride) ==
  IF length = 0 THEN [zero_samples |-> zs, one_samples |-> os]
  ELSE
    LET st0 == [total_ones |-> 0, total_zeros |-> 0,
                one_samples |-> os, cur_one |-> 0, threshold_one |-> stride,
                zero_samples |-> zs, cur_zero |-> 0, threshold_zero |-> stride]
        st1 == select_update_loop(st0, stride, 0)
        num_last_block == num_blocks - 1
        wrong_zeros == Wrap(num_blocks * kBlockDataWidth - length)
        num_ones == block_popcount(data, num_last_block)
        num_zeros == Wrap(kBlockDataWidth - num_ones - wrong_zeros)
        st2 == handle_block(st1, stride, num_last_block, num_ones, num_zeros)
    IN [zero_samples |->
          WriteWord(st2.zero_samples, st2.cur_zero, Wrap(num_superblocks - 1)),
        one_samples |->
          WriteWord(st2.one_samples, st2.cur_one, Wrap(num_superblocks - 1))]

\* TwoLayerSelect::update() on sample arrays zs, os.
select_update_of(zs, os, stride) ==
  IF length = 0 THEN [zero_samples |-> zs, one_samples |-> os]
  ELSE
    LET st0 == [total_ones |-> 0, total_zeros |-> 0,
                one_samples |-> os, cur_one |-> 0, threshold_one |-> 0,
                zero_samples |-> zs, cur_zero |-> 0, threshold_zero |-> 0]
        st1 == select_update_loop(st0, stride, 0)
        num_last_block == num_blocks - 1
        wrong_zeros == Wrap(num_blocks * kBlockDataWidth - length)
        num_ones == block_popcount(data, num_last_block)
        num_zeros == Wrap(kBlockDataWidth - num_ones - wrong_zeros)
        st2 == handle_block(st1, stride, num_last_block, num_ones, num_zeros)
    IN [zero_samples |->
          WriteWord(st2.zero_samples, st2.cur_zero, Wrap(num_superblocks - 1)),
        one_samples |->
          WriteWord(st2.one_samples, st2.cur_one, Wrap(num_superblocks - 1))]

\* TwoLayerSelect::update(): the indexes at which the two sentinel samples
\* are written, which are the numbers of samples written before them.
select_update_cursors(stride) ==
  LET st0 == [total_ones |-> 0, total_zeros |-> 0,
              one_samples |-> <<>>, cur_one |-> 0, threshold_one |-> 0,
              zero_samples |-> <<>>, cur_zero |-> 0, threshold_zero |-> 0]
      st1 == select_update_loop(st0, stride, 0)
      num_last_block == num_blocks - 1
      wrong_zeros == Wrap(num_blocks * kBlockDataWidth - length)
      num_ones == block_popcount(data, num_last_block)
      num_zeros == Wrap(kBlockDataWidth - num_ones - wrong_zeros)
  IN CHOOSE r \in { [cur_one |-> st2.cur_one, cur_zero |-> st2.cur_zero] :
                     st2 \in {handle_block(st1, stride, num_last_block,
                                           num_ones, num_zeros)} } : TRUE

\* A sample array sized without the slot of the sentinel sample.
select_ctor_short_samples(binary, stride, num_ones) ==
  LET zs == [i \in 0 .. ((length - num_ones) \div stride) |-> junk]
      os == [i \in 0 .. (num_ones \div stride) |-> junk]
      up == select_update_of(zs, os, stride)
  IN [built |-> TRUE, kUseBinarySearch |-> binary, kStride |-> stride,
      zero_samples |-> up.zero_samples, one_samples |-> up.one_samples]

\* Sample arrays sized with the quotient rounded up.
select_ctor_ceil_samples(binary, stride, num_ones) ==
  LET zs == [i \in 0 .. div_ceil(length - num_ones, stride) + 1 |-> junk]
      os == [i \in 0 .. div_ceil(num_ones, stride) + 1 |-> junk]
      up == select_update_of(zs, os, stride)
  IN [built |-> TRUE, kUseBinarySearch |-> binary, kStride |-> stride,
      zero_samples |-> up.zero_samples, one_samples |-> up.one_samples]

\* TwoLayerSelect(bitvector, num_ones)
select_ctor(binary, stride, num_ones) ==
  LET zs == [i \in 0 .. ((length - num_ones) \div stride) + 1 |-> junk]
      os == [i \in 0 .. (num_ones \div stride) + 1 |-> junk]
      up == select_update_of(zs, os, stride)
  IN [built |-> TRUE, kUseBinarySearch |-> binary, kStride |-> stride,
      zero_samples |-> up.zero_samples, one_samples |-> up.one_samples]

\* count_ones of the test utilities: the num_ones the callers pass.
count_ones ==
  Cardinality({pos \in 0 .. length - 1 : is_set(pos)})

\* A clamp that always takes the number of blocks of the vector.
Min_unclamped(a, b) == a

Min(a, b) == IF a < b THEN a ELSE b

\* A header read that forgets to mask the payload bits out of the first word.
header_of_unmasked(num_block) == ReadWord(data, num_block * kNumWordsPerBlock)

\* Low kBlockHeaderWidth bits of the first word of block num_block.
header_of(num_block) ==
  BitAnd(ReadWord(data, num_block * kNumWordsPerBlock),
         setbits(kBlockHeaderWidth, 0))

\* select1(rank): the position returned, with the indexes the descent reads
\* from the sample array, from the superblock ranks, the blocks whose header
\* it reads and the words of the data buffer the word search reads.
select1_run(index, rank_in) ==
  LET nearest_prev_sample == (rank_in - 1) \div index.kStride
      first_superblock == ReadWord(index.one_samples, nearest_prev_sample)
      num_last_superblock == ReadWord(index.one_samples, nearest_prev_sample + 1)
      \* Step 2: the superblock
      RECURSIVE sb_binary(_, _, _)
      sb_binary(s, len, reads) ==
        IF len > 1
        THEN LET half == len \div 2
             IN sb_binary(
                  s + (IF ReadWord(superblock_data, s + half) < rank_in
                       THEN half ELSE 0),
                  len - half, reads \cup {s + half})
        ELSE [at |-> s, reads |-> reads]
      RECURSIVE sb_linear(_, _)
      sb_linear(s, reads) ==
        IF s < num_last_superblock
        THEN IF ReadWord(superblock_data, s + 1) < rank_in
             THEN sb_linear(s + 1, reads \cup {s + 1})
             ELSE [at |-> s, reads |-> reads \cup {s + 1}]
        ELSE [at |-> s, reads |-> reads]
      sb == IF index.kUseBinarySearch
            THEN sb_binary(first_superblock,
                           Wrap(num_last_superblock - first_superblock + 1), {})
            ELSE sb_linear(first_superblock, {})
      num_superblock == sb.at
      rank_sb == Wrap(rank_in - ReadWord(superblock_data, num_superblock))
      \* Step 3: the block
      num_last_block ==
        Wrap(Min(num_blocks, (num_superblock + 1) * kNumBlocksPerSuperblock) - 1)
      RECURSIVE block_binary(_, _, _)
      block_binary(b, len, reads) ==
        IF len > 1
        THEN LET half == len \div 2
             IN block_binary(
                  b + (IF header_of(b + half) < rank_sb THEN half ELSE 0),
                  len - half, reads \cup {b + half})
        ELSE [at |-> b, reads |-> reads]
      RECURSIVE block_linear(_, _)
      block_linear(b, reads) ==
        IF b < num_last_block
        THEN IF header_of(b + 1) < rank_sb
             THEN block_linear(b + 1, reads \cup {b + 1})
             ELSE [at |-> b, reads |-> reads \cup {b + 1}]
        ELSE [at |-> b, reads |-> reads]
      bl == IF index.kUseBinarySearch
            THEN block_binary(num_superblock * kNumBlocksPerSuperblock,
                              kNumBlocksPerSuperblock, {})
            ELSE block_linear(num_superblock * kNumBlocksPerSuperblock, {})
      num_block == bl.at
      rank_b == Wrap(rank_sb - header_of(num_block))
      base == num_block * kNumWordsPerBlock
      \* Step 4: the word
      current_word_rank(num_word) ==
        IF num_word = 0
        THEN popcount(Shr(ReadWord(data, base), kBlockHeaderWidth))
        ELSE popcount(ReadWord(data, base + num_word))
      RECURSIVE word_search(_, _)
      word_search(num_word, rank) ==
        IF (base + num_word) \notin DOMAIN data
        THEN [ok |-> FALSE, num_word |-> num_word, rank |-> rank]
        ELSE IF current_word_rank(num_word) < rank
        THEN word_search(num_word + 1, rank - current_word_rank(num_word))
        ELSE [ok |-> TRUE, num_word |-> num_word, rank |-> rank]
      found == word_search(0, rank_b)
      word == IF found.num_word = 0
              THEN BitAnd(ReadWord(data, base),
                          BitNot(setbits(kBlockHeaderWidth, 0)))
              ELSE ReadWord(data, base + found.num_word)
      bit == word_select1(word, found.rank)
  IN [pos |-> IF ~found.ok \/ bit = Undefined THEN Undefined
              ELSE Wrap(num_block * kBlockDataWidth + found.num_word * kWordWidth
                        + bit - kBlockHeaderWidth),
      ended |-> found.ok /\ bit # Undefined,
      num_superblock |-> num_superblock,
      num_block |-> num_block,
      sample_reads |-> {nearest_prev_sample, nearest_prev_sample + 1},
      superblock_reads |-> sb.reads \cup {num_superblock},
      block_reads |-> bl.reads \cup {num_block},
      word_reads |-> base .. base + found.num_word]

select1_of(index, rank_in) == select1_run(index, rank_in).pos

\* select1 of the select index of this run.
select1(rank_in) == select1_of(sel, rank_in)

\* select0(rank): the position returned, with the indexes the descent reads
\* from the sample array, from the superblock ranks, the blocks whose header
\* it reads and the words of the data buffer the word search reads.
select0_run(index, rank_in) ==
  LET nearest_prev_sample == (rank_in - 1) \div index.kStride
      first_superblock == ReadWord(index.zero_samples, nearest_prev_sample)
      num_last_superblock == ReadWord(index.zero_samples, nearest_prev_sample + 1)
      superblock_rank(s) ==
        Wrap(s * kSuperblockDataWidth - ReadWord(superblock_data, s))
      block_rank(b) ==
        Wrap((b % kNumBlocksPerSuperblock) * kBlockDataWidth - header_of(b))
      \* Step 2: the superblock
      RECURSIVE sb_binary(_, _, _)
      sb_binary(s, len, reads) ==
        IF len > 1
        THEN LET half == len \div 2
             IN sb_binary(
                  s + (IF superblock_rank(s + half) < rank_in
                       THEN half ELSE 0),
                  len - half, reads \cup {s + half})
        ELSE [at |-> s, reads |-> reads]
      RECURSIVE sb_linear(_, _)
      sb_linear(s, reads) ==
        IF s < num_last_superblock
        THEN IF superblock_rank(s + 1) < rank_in
             THEN sb_linear(s + 1, reads \cup {s + 1})
             ELSE [at |-> s, reads |-> reads \cup {s + 1}]
        ELSE [at |-> s, reads |-> reads]
      sb == IF index.kUseBinarySearch
            THEN sb_binary(first_superblock,
                           Wrap(num_last_superblock - first_superblock + 1), {})
            ELSE sb_linear(first_superblock, {})
      num_superblock == sb.at
      rank_sb == Wrap(rank_in - superblock_rank(num_superblock))
      \* Step 3: the block
      num_last_block ==
        Wrap(Min(num_blocks, (num_superblock + 1) * kNumBlocksPerSuperblock) - 1)
      RECURSIVE block_binary(_, _, _)
      block_binary(b, len, reads) ==
        IF len > 1
        THEN LET half == len \div 2
             IN block_binary(
                  b + (IF block_rank(b + half) < rank_sb THEN half ELSE 0),
                  len - half, reads \cup {b + half})
        ELSE [at |-> b, reads |-> reads]
      RECURSIVE block_linear(_, _)
      block_linear(b, reads) ==
        IF b < num_last_block
        THEN IF block_rank(b + 1) < rank_sb
             THEN block_linear(b + 1, reads \cup {b + 1})
             ELSE [at |-> b, reads |-> reads \cup {b + 1}]
        ELSE [at |-> b, reads |-> reads]
      bl == IF index.kUseBinarySearch
            THEN block_binary(num_superblock * kNumBlocksPerSuperblock,
                              kNumBlocksPerSuperblock, {})
            ELSE block_linear(num_superblock * kNumBlocksPerSuperblock, {})
      num_block == bl.at
      rank_b == Wrap(rank_sb - block_rank(num_block))
      base == num_block * kNumWordsPerBlock
      \* Step 4: the word
      current_word_rank(num_word) ==
        IF num_word = 0
        THEN popcount(BitNot(BitOr(ReadWord(data, base),
                                   setbits(kBlockHeaderWidth, 0))))
        ELSE popcount(BitNot(ReadWord(data, base + num_word)))
      RECURSIVE word_search(_, _)
      word_search(num_word, rank) ==
        IF (base + num_word) \notin DOMAIN data
        THEN [ok |-> FALSE, num_word |-> num_word, rank |-> rank]
        ELSE IF current_word_rank(num_word) < rank
        THEN word_search(num_word + 1, rank - current_word_rank(num_word))
        ELSE [ok |-> TRUE, num_word |-> num_word, rank |-> rank]
      found == word_search(0, rank_b)
      word == IF found.num_word = 0
              THEN BitOr(ReadWord(data, base), setbits(kBlockHeaderWidth, 0))
              ELSE ReadWord(data, base + found.num_word)
      bit == word_select1(BitNot(word), found.rank)
  IN [pos |-> IF ~found.ok \/ bit = Undefined THEN Undefined
              ELSE Wrap(num_block * kBlockDataWidth + found.num_word * kWordWidth
                        + bit - kBlockHeaderWidth),
      ended |-> found.ok /\ bit # Undefined,
      num_superblock |-> num_superblock,
      num_block |-> num_block,
      sample_reads |-> {nearest_prev_sample, nearest_prev_sample + 1},
      superblock_reads |-> sb.reads \cup {num_superblock},
      block_reads |-> bl.reads \cup {num_block},
      word_reads |-> base .. base + found.num_word]

select0_of(index, rank_in) == select0_run(index, rank_in).pos

\* select0 of the select index of this run.
select0(rank_in) == select0_of(sel, rank_in)

\* ----------------------------------------------------------- StaticVector
\* StaticVector<T> for a T of eight bytes. std::size_t has the width of the
\* machine word, so that size * sizeof(T) wraps as it does on the real
\* machine; the huge page is scaled with it.
kSizeofT == 8
kHugePageSize == 16
SizeMod == WordMod
nullptr == 0
MAP_FAILED == 0 - 1

round_to(x, y) == (div_ceil(x, y) * y) % SizeMod

\* The StaticVector objects of a run and the sizes they are constructed with.
SvNames == {"a", "b"}
SvSizes == {0, 3, 33}

\* A StaticVector: its three members; alive between construction and
\* destruction.
SvObject(alive, huge_pages, size, ptr) ==
  [alive |-> alive, _huge_pages |-> huge_pages, _size |-> size, _ptr |-> ptr]

NoObject == SvObject(FALSE, FALSE, 0, nullptr)

\* A buffer handed out by mmap or malloc: who asked for it, its length in
\* bytes, and the releases (munmap / free, with the object destroyed and the
\* length passed) it has seen.
Allocation(via, bytes, owner) ==
  [via |-> via, bytes |-> bytes, owner |-> owner, released |-> <<>>]

SvCall(name, dst, src, size, mmap_failed, malloc_failed, threw, before) ==
  [name |-> name, dst |-> dst, src |-> src, size |-> size,
   mmap_failed |-> mmap_failed, malloc_failed |-> malloc_failed,
   threw |-> threw, before |-> before]

NoVectors ==
  [kUseHugePages |-> FALSE, objs |-> [o \in SvNames |-> NoObject],
   heap |-> <<>>,
   last |-> SvCall("none", "a", "a", 0, FALSE, FALSE, FALSE,
                   [o \in SvNames |-> NoObject])]

\* StaticVector(size). mmap fails when the host has no huge page to give and
\* when the length is 0; malloc fails when the host has no memory to give.
sv_ctor(heap, huge, owner, size, mmap_ok, malloc_ok) ==
  LET num_bytes == (size * kSizeofT) % SizeMod
      map_length == round_to(num_bytes, kHugePageSize)
      mmap_ptr == IF mmap_ok /\ map_length > 0 THEN Len(heap) + 1 ELSE MAP_FAILED
  IN IF huge /\ mmap_ptr # MAP_FAILED
     THEN [threw |-> FALSE, mmap_failed |-> FALSE, malloc_failed |-> FALSE,
           heap |-> Append(heap, Allocation("mmap", map_length, owner)),
           obj |-> SvObject(TRUE, TRUE, size, mmap_ptr)]
     ELSE IF malloc_ok
     THEN [threw |-> FALSE, mmap_failed |-> huge, malloc_failed |-> FALSE,
           heap |-> Append(heap, Allocation("malloc", num_bytes, owner)),
           obj |-> SvObject(TRUE, FALSE, size, Len(heap) + 1)]
     ELSE [threw |-> TRUE, mmap_failed |-> huge, malloc_failed |-> TRUE,
           heap |-> heap, obj |-> NoObject]

\* munmap(ptr, length) and std::free(ptr) as the heap sees them.
release(heap, ptr, via, len, by) ==
  IF ptr \in DOMAIN heap
  THEN [heap EXCEPT ![ptr].released =
          Append(@, [via |-> via, bytes |-> len, by |-> by])]
  ELSE heap

\* ~StaticVector()
sv_dtor(heap, huge, obj, by) ==
  IF huge /\ obj._huge_pages
  THEN release(heap, obj._ptr, "munmap",
               round_to((obj._size * kSizeofT) % SizeMod, kHugePageSize), by)
  ELSE release(heap, obj._ptr, "free", 0, by)

\* A move constructor that leaves the huge-page flag behind.
sv_move_ctor_dropping_flag(objs, dst, src) ==
  [objs EXCEPT ![dst] = SvObject(TRUE, FALSE, objs[src]._size, objs[src]._ptr),
               ![src] = SvObject(TRUE, FALSE, 0, nullptr)]

\* StaticVector(StaticVector&& other)
sv_move_ctor(objs, dst, src) ==
  [objs EXCEPT ![dst] = SvObject(TRUE, objs[src]._huge_pages, objs[src]._size,
                                 objs[src]._ptr),
               ![src] = SvObject(TRUE, FALSE, 0, nullptr)]

\* A move assignment without the test for this = &other.
sv_move_assign_unchecked(objs, dst, src) ==
  [o \in SvNames |->
     IF o = src THEN SvObject(TRUE, FALSE, 0, nullptr)
     ELSE IF o = dst THEN objs[src] ELSE objs[o]]

\* operator=(StaticVector&& other): the members of this are overwritten, the
\* buffer this held is not released.
sv_move_assign(objs, dst, src) ==
  IF dst # src
  THEN [objs EXCEPT ![dst] = SvObject(TRUE, objs[src]._huge_pages,
                                      objs[src]._size, objs[src]._ptr),
                    ![src] = SvObject(TRUE, FALSE, 0, nullptr)]
  ELSE objs

\* ---------------------------------------------------------- the machine
\* for (pos = 0; pos < length; ++pos) set(pos, bits[pos])
RECURSIVE fill_loop(_, _, _)
fill_loop(d, pos, bits) ==
  IF pos < length
  THEN CHOOSE r \in { fill_loop(nd, pos + 1, bits) :
                      nd \in {set_value_in(d, pos, bits[pos])} } : TRUE
  ELSE d

RECURSIVE plain_fill_loop(_, _, _)
plain_fill_loop(d, pos, bits) ==
  IF pos < length
  THEN CHOOSE r \in { plain_fill_loop(nd, pos + 1, bits) :
                      nd \in {plain_set_value_in(d, pos, bits[pos])} } : TRUE
  ELSE d

Op(name, pos, value) == [name |-> name, pos |-> pos, value |-> value]

\* A query, the word or position and the rank it was asked for, its answer.
Query(name, arg, rank, result) ==
  [name |-> name, arg |-> arg, rank |-> rank, result |-> result]

NoQuery == Query("none", 0, 0, 0)

\* The threads that query the structures, and where each of them is: before
\* its first query, inside a query, or back from it with the answer.
Readers == {1, 2}

Reader(pc, name, arg, result) ==
  [pc |-> pc, name |-> name, arg |-> arg, result |-> result]

NoReaders == [r \in Readers |-> Reader("idle", "none", 0, 0)]

WriteKinds == {"unset", "set", "set_value"}

\* TwoLayerRankCombinedBitVector(length) and BitVector(length)
ConstructLength ==
  /\ data = ctor_data(length)
  /\ superblock_data = ctor_superblock_data(length)
  /\ plain_data = plain_ctor(length)
  /\ written = {}
  /\ rank_sync = FALSE
  /\ last_op = Op("ctor", 0, FALSE)

\* A fill constructor that returns without calling update().
ConstructFillWithoutUpdate(set) ==
  \E filled \in {fill_loop(ctor_data(length), 0, [pos \in 0 .. length - 1 |-> set])} :
     /\ data = filled
     /\ superblock_data = ctor_superblock_data(length)
     /\ plain_data = plain_ctor_fill(length, set)
     /\ written = 0 .. length - 1
     /\ rank_sync = TRUE
     /\ last_op = Op("ctor_fill", 0, set)

\* TwoLayerRankCombinedBitVector(length, set) and BitVector(length, set)
ConstructFill(set) ==
  \E filled \in {fill_loop(ctor_data(length), 0, [pos \in 0 .. length - 1 |-> set])} :
  \E up \in {update_of(filled, ctor_superblock_data(length), num_blocks)} :
     /\ data = up.data
     /\ superblock_data = up.superblock_data
     /\ plain_data = plain_ctor_fill(length, set)
     /\ written = 0 .. length - 1
     /\ rank_sync = TRUE
     /\ last_op = Op("ctor_fill", 0, set)

InitWith(configs) ==
  /\ cfg \in configs
  /\ junk \in JunkWords
  /\ length \in 0 .. MaxLen
  /\ num_blocks = div_ceil(length, kBlockDataWidth)
  /\ num_superblocks = div_ceil(length, kSuperblockDataWidth)
  /\ ConstructLength \/ \E set \in BOOLEAN : ConstructFill(set)
  /\ sel = NoSelect
  /\ sel_sync = FALSE
  /\ nwrites = 0

Init ==
  /\ InitWith(TestedConfigs)
  /\ last_query = NoQuery /\ readers = NoReaders /\ sv = NoVectors

Written(pos) ==
  /\ written' = written \cup {pos}
  /\ rank_sync' = FALSE
  /\ sel_sync' = FALSE
  /\ nwrites' = nwrites + 1
  /\ UNCHANGED <<cfg, junk, length, num_blocks, num_superblocks,
                 superblock_data, sel, last_query, readers, sv>>

Unset(pos) ==
  /\ nwrites < MaxWrites
  /\ data' = unset_in(data, pos)
  /\ plain_data' = plain_unset_in(plain_data, pos)
  /\ last_op' = Op("unset", pos, FALSE)
  /\ Written(pos)

Set(pos) ==
  /\ nwrites < MaxWrites
  /\ data' = set_in(data, pos)
  /\ plain_data' = plain_set_in(plain_data, pos)
  /\ last_op' = Op("set", pos, TRUE)
  /\ Written(pos)

SetValue(pos, value) ==
  /\ nwrites < MaxWrites
  /\ data' = set_value_in(data, pos, value)
  /\ plain_data' = plain_set_value_in(plain_data, pos, value)
  /\ last_op' = Op("set_value", pos, value)
  /\ Written(pos)

\* create_alternating_bitvec on the vector just constructed
CreateAlternating(period) ==
  LET bits == [pos \in 0 .. length - 1 |-> (pos % period) = 0]
  IN /\ last_op.name = "ctor"
     /\ data' = fill_loop(data, 0, bits)
     /\ plain_data' = plain_fill_loop(plain_data, 0, bits)
     /\ written' = 0 .. length - 1
     /\ rank_sync' = FALSE
     /\ sel_sync' = FALSE
     /\ last_op' = Op("fill", period, FALSE)
     /\ UNCHANGED <<cfg, junk, length, num_blocks, num_superblocks,
                    superblock_data, sel, nwrites, last_query, readers, sv>>

\* TwoLayerRankCombinedBitVector::update()
Update ==
  \E up \in {update_of(data, superblock_data, num_blocks)} :
     /\ data' = up.data
     /\ superblock_data' = up.superblock_data
     /\ rank_sync' = TRUE
     /\ last_op' = Op("update", 0, FALSE)
     /\ UNCHANGED <<cfg, junk, length, num_blocks, num_superblocks, plain_data,
                    sel, written, sel_sync, nwrites, last_query, readers, sv>>

SearchModes == BOOLEAN

\* The strides of the select benchmark, from half a superblock up.
BenchStrides == {12, 16, 32, 64}

Strides == {32}

\* TwoLayerSelect select(bitvector, count_ones(bitvector))
BuildSelect(binary, stride) ==
  /\ ~sel.built
  /\ sel' = select_ctor(binary, stride, count_ones)
  /\ sel_sync' = TRUE
  /\ UNCHANGED <<cfg, junk, length, num_blocks, data, num_superblocks,
                 superblock_data, plain_data, written, rank_sync, nwrites,
                 last_op, last_query, readers, sv>>

\* The positions a single write goes to: the first and the last bit of the
\* vector, a bit in the middle, and the bits around the block and superblock
\* boundaries.
WritePositions ==
  { pos \in { 0, length \div 2, length - 1,
              kBlockDataWidth - 1, kBlockDataWidth,
              kSuperblockDataWidth - 1, kSuperblockDataWidth,
              kSuperblockDataWidth + kBlockDataWidth } : pos \in 0 .. length - 1 }

Next ==
  \/ \E pos \in WritePositions : Unset(pos)
  \/ \E pos \in WritePositions : Set(pos)
  \/ \E pos \in WritePositions, value \in BOOLEAN : SetValue(pos, value)
  \/ \E period \in 2 .. MaxPeriod : CreateAlternating(period)
  \/ Update
  \/ \E binary \in SearchModes, stride \in Strides : BuildSelect(binary, stride)

Spec == Init /\ [][Next]_vars

\* The same machine over every instantiation of the rank benchmark.
InitBench ==
  /\ InitWith(BenchConfigs)
  /\ last_query = NoQuery /\ readers = NoReaders /\ sv = NoVectors

SpecBench == InitBench /\ [][Next]_vars

\* ------------------------------------- update() of an existing select index
\* TwoLayerSelect::update() on the index built earlier: the sample arrays
\* keep the sizes the constructor gave them.
SelectUpdate ==
  /\ sel.built
  /\ \E up \in {select_update_of(sel.zero_samples, sel.one_samples, sel.kStride)} :
       sel' = [sel EXCEPT !.zero_samples = up.zero_samples,
                          !.one_samples = up.one_samples]
  /\ sel_sync' = TRUE
  /\ last_op' = Op("select_update", 0, FALSE)
  /\ UNCHANGED <<cfg, junk, length, num_blocks, data, num_superblocks,
                 superblock_data, plain_data, written, rank_sync, nwrites,
                 last_query, readers, sv>>

\* Strides of at least one block of either tested configuration.
ReindexStrides == {12, 32}

NextReindex ==
  \/ \E pos \in WritePositions : Unset(pos)
  \/ \E pos \in WritePositions : Set(pos)
  \/ \E pos \in WritePositions, value \in BOOLEAN : SetValue(pos, value)
  \/ \E period \in 2 .. MaxPeriod : CreateAlternating(period)
  \/ Update
  \/ \E binary \in SearchModes :
       \E stride \in {st \in ReindexStrides : st >= kBlockDataWidth} :
         BuildSelect(binary, stride)
  \/ SelectUpdate

SpecReindex == Init /\ [][NextReindex]_vars

\* ------------------------------------------------- word_select1 alone
machine_vars ==
  <<cfg, junk, length, num_blocks, data, num_superblocks, superblock_data,
    plain_data, sel, written, rank_sync, sel_sync, nwrites, last_op>>

\* word_select1<false, false>(word, rank) of a build with PDEP, for the word
\* and the rank drawn at the start
WordSelectPdep ==
  /\ last_query' = Query("word_select1_pdep", last_query.arg, last_query.rank,
                         word_select1_pdep(last_query.arg, last_query.rank))
  /\ UNCHANGED <<machine_vars, readers, sv>>

\* word_select1<true, true>(word, rank)
WordSelectBinary ==
  /\ last_query' = Query("word_select1_binary", last_query.arg, last_query.rank,
                         word_select1_binary(last_query.arg, last_query.rank))
  /\ UNCHANGED <<machine_vars, readers, sv>>

\* word_select1<false, true>(word, rank)
WordSelectLinear ==
  /\ last_query' = Query("word_select1_linear", last_query.arg, last_query.rank,
                         word_select1(last_query.arg, last_query.rank))
  /\ UNCHANGED <<machine_vars, readers, sv>>

WordSelectVariants ==
  {"word_select1_pdep", "word_select1_binary", "word_select1_linear"}

\* The empty vector, and a word and a rank to ask word_select1 for.
InitWord ==
  /\ length = 0
  /\ InitWith(TestedConfigs)
  /\ last_op.name = "ctor"
  /\ \E word \in 0 .. kOnes, rank \in 1 .. kWordWidth :
       last_query = Query("none", word, rank, 0)
  /\ readers = NoReaders
  /\ sv = NoVectors

NextWord == WordSelectPdep \/ WordSelectBinary \/ WordSelectLinear

SpecWord == InitWord /\ [][NextWord]_vars

\* ------------------------------------------------- readers of the structures
QueryNames == {"is_set", "rank0", "rank1", "select0", "select1"}

\* The const member function a reader calls, on the structures as they are.
Answer(name, arg) ==
  CASE name = "is_set" -> IF is_set(arg) THEN 1 ELSE 0
    [] name = "rank0" -> rank0(arg)
    [] name = "rank1" -> rank1(arg)
    [] name = "select0" -> select0(arg)
    [] name = "select1" -> select1(arg)

\* Arguments inside the contract of each query: a position of the vector, a
\* rank between 1 and the number of ones or of zeros.
ValidArgs(name) ==
  IF name \in {"is_set", "rank0", "rank1"}
  THEN {pos \in {length \div 2, length - 1} : pos \in 0 .. length - 1}
  ELSE IF name = "select1"
  THEN {k \in {1, count_ones} : k \in 1 .. count_ones}
  ELSE {k \in {1, length - count_ones} : k \in 1 .. length - count_ones}

\* No reader has called a query yet: the structures may still be written.
Quiescent == \A r \in Readers : readers[r].pc = "idle"

\* A query that counts its calls in the header of the first block.
ReaderReturnCounting(r) ==
  /\ readers[r].pc = "called"
  /\ readers' = [readers EXCEPT ![r] =
                   Reader("returned", readers[r].name, readers[r].arg,
                          Answer(readers[r].name, readers[r].arg))]
  /\ data' = WriteWord(data, 0, Wrap(ReadWord(data, 0) + 1))
  /\ UNCHANGED <<cfg, junk, length, num_blocks, num_superblocks,
                 superblock_data, plain_data, sel, written, rank_sync,
                 sel_sync, nwrites, last_op, last_query, sv>>

\* A reader enters a query on the finalized vector and its select index.
ReaderCall(r, name, arg) ==
  /\ sel.built /\ sel_sync /\ rank_sync /\ written = 0 .. length - 1
  /\ readers[r].pc # "called"
  /\ arg \in ValidArgs(name)
  /\ readers' = [readers EXCEPT ![r] = Reader("called", name, arg, 0)]
  /\ UNCHANGED <<machine_vars, last_query, sv>>

\* The body of the query runs: it reads the members and assigns none.
ReaderReturn(r) ==
  /\ readers[r].pc = "called"
  /\ readers' = [readers EXCEPT ![r] =
                   Reader("returned", readers[r].name, readers[r].arg,
                          Answer(readers[r].name, readers[r].arg))]
  /\ UNCHANGED <<machine_vars, last_query, sv>>

InitReaders ==
  /\ InitWith(TestedConfigs)
  /\ length \in ReaderLengths
  /\ last_query = NoQuery
  /\ readers = NoReaders
  /\ sv = NoVectors

\* The vector is written, finalized and indexed by one thread; from the first
\* query on only readers run.
NextReaders ==
  \/ Quiescent /\ \E period \in 2 .. MaxPeriod : CreateAlternating(period)
  \/ Quiescent /\ Update
  \/ \E binary \in SearchModes, stride \in Strides : BuildSelect(binary, stride)
  \/ \E r \in Readers, name \in QueryNames :
       \E arg \in ValidArgs(name) : ReaderCall(r, name, arg)
  \/ \E r \in Readers : ReaderReturn(r)

SpecReaders == InitReaders /\ [][NextReaders]_vars

\* --------------------------------------------- StaticVector objects alone
SvFrame == UNCHANGED <<machine_vars, last_query, readers>>

SvConstruct(o, size, mmap_ok, malloc_ok) ==
  /\ ~sv.objs[o].alive
  /\ Len(sv.heap) < MaxAllocs
  /\ \E r \in {sv_ctor(sv.heap, sv.kUseHugePages, o, size, mmap_ok, malloc_ok)} :
       sv' = [sv EXCEPT !.heap = r.heap,
                        !.objs = [sv.objs EXCEPT ![o] = r.obj],
                        !.last = SvCall("ctor", o, o, size, r.mmap_failed,
                                        r.malloc_failed, r.threw, sv.objs)]
  /\ SvFrame

SvMoveConstruct(dst, src) ==
  /\ ~sv.objs[dst].alive
  /\ sv.objs[src].alive
  /\ sv' = [sv EXCEPT !.objs = sv_move_ctor(sv.objs, dst, src),
                      !.last = SvCall("move_ctor", dst, src, 0, FALSE, FALSE,
                                      FALSE, sv.objs)]
  /\ SvFrame

SvMoveAssign(dst, src) ==
  /\ sv.objs[dst].alive
  /\ sv.objs[src].alive
  /\ sv' = [sv EXCEPT !.objs = sv_move_assign(sv.objs, dst, src),
                      !.last = SvCall("move_assign", dst, src, 0, FALSE, FALSE,
                                      FALSE, sv.objs)]
  /\ SvFrame

SvDestroy(o) ==
  /\ sv.objs[o].alive
  /\ sv' = [sv EXCEPT !.heap = sv_dtor(sv.heap, sv.kUseHugePages, sv.objs[o], o),
                      !.objs = [sv.objs EXCEPT ![o] = NoObject],
                      !.last = SvCall("dtor", o, o, 0, FALSE, FALSE, FALSE,
                                      sv.objs)]
  /\ SvFrame

\* A build with or without BITSY_HUGE_PAGES, no StaticVector constructed yet.
InitVector ==
  /\ length = 0
  /\ InitWith(TestedConfigs)
  /\ last_op.name = "ctor"
  /\ junk = 0
  /\ cfg.BlockWidth = 16
  /\ last_query = NoQuery
  /\ readers = NoReaders
  /\ \E huge \in BOOLEAN : sv = [NoVectors EXCEPT !.kUseHugePages = huge]

NextVector ==
  \/ \E o \in SvNames, size \in SvSizes, mmap_ok \in BOOLEAN, malloc_ok \in BOOLEAN :
       SvConstruct(o, size, mmap_ok, malloc_ok)
  \/ \E dst \in SvNames, src \in SvNames : SvMoveConstruct(dst, src)
  \/ \E dst \in SvNames, src \in SvNames : SvMoveAssign(dst, src)
  \/ \E o \in SvNames : SvDestroy(o)

SpecVector == InitVector /\ [][NextVector]_vars

\* ------------------------------------------------------------ properties
\* The definitional rank: the number of positions q < pos with is_set(q).
OnesBefore(pos) == Cardinality({q \in 0 .. pos - 1 : is_set(q)})

\* Every position was written and update() ran after the last write.
Finalized == rank_sync /\ written = 0 .. length - 1

\* C1: once every position of [0, length) was written and update() was called,
\* rank1(pos) is the number of set positions below pos and rank0(pos) is pos
\* minus that number, for every pos in [0, length).
C1_RankCountsSetBits ==
  Finalized =>
    \A pos \in 0 .. length - 1 :
      /\ rank1(pos) = OnesBefore(pos)
      /\ rank0(pos) = pos - OnesBefore(pos)

\* A finalized vector that reaches into the second block of the second
\* superblock and holds both set and clear bits.
C1_Witness ==
  /\ Finalized
  /\ last_op.name = "update"
  /\ length > kSuperblockDataWidth + kBlockDataWidth
  /\ rank1(length - 1) > 0
  /\ rank0(length - 1) > 0

\* The vector is finalized and the select index was built on its contents.
Selectable == Finalized /\ sel.built /\ sel_sync

\* C2: on a finalized vector with a select index built with the true number
\* of ones, select1(rank1(p) + 1) = p for every set position p and
\* select0(rank0(p) + 1) = p for every clear position p.
C2_SelectInvertsRank ==
  Selectable =>
    \A p \in 0 .. length - 1 :
      IF is_set(p) THEN select1(Wrap(rank1(p) + 1)) = p
                   ELSE select0(Wrap(rank0(p) + 1)) = p

\* Set bits on both sides of the superblock boundary and of the block
\* boundary after it, in a vector that also holds clear bits.
C2_Witness ==
  /\ Selectable
  /\ length > kSuperblockDataWidth + kBlockDataWidth
  /\ is_set(kSuperblockDataWidth - 1)
  /\ is_set(kSuperblockDataWidth)
  /\ is_set(kSuperblockDataWidth + kBlockDataWidth)
  /\ ~is_set(kSuperblockDataWidth + 1)
  /\ select1(Wrap(rank1(kSuperblockDataWidth) + 1)) = kSuperblockDataWidth

\* C3: on a finalized vector with its select index, for every k up to the
\* number of ones select1(k) is a position below length whose bit is set and
\* that has k - 1 ones before it; for every k up to the number of zeros
\* select0(k) is a position below length whose bit is clear and that has
\* k - 1 zeros before it.
C3_RankInvertsSelect ==
  Selectable =>
    /\ \A k \in 1 .. OnesBefore(length) :
         \A s \in {select1(k)} :
           s \in 0 .. length - 1 /\ is_set(s) /\ rank1(s) = k - 1
    /\ \A k \in 1 .. length - OnesBefore(length) :
         \A s \in {select0(k)} :
           s \in 0 .. length - 1 /\ ~is_set(s) /\ rank0(s) = k - 1

\* The last block has unused trailing bits, and the last zero of the vector
\* is found in it.
C3_Witness ==
  /\ Selectable
  /\ length > kSuperblockDataWidth
  /\ length % kBlockDataWidth # 0
  /\ OnesBefore(length) > 1
  /\ ~is_set(length - 1)
  /\ select0(length - OnesBefore(length)) = length - 1

\* C4: after finalize rank1(n) at n = length is the total number of set bits
\* and rank0(n) = n - rank1(n), for every length n >= 0; for the empty vector
\* rank1(0) = 0 and rank0(0) = 0.
C4_RankAtLength ==
  Finalized =>
    /\ rank1(length) = OnesBefore(length)
    /\ rank0(length) = length - OnesBefore(length)

\* C5: after set(p) is_set(p) is true, after unset(p) it is false, after
\* set(p, v) it is v; before and after update() every written position reads
\* as it does in the plain BitVector given the same writes.
C5_AccessAfterWrite ==
  /\ last_op.name = "set" => is_set(last_op.pos)
  /\ last_op.name = "unset" => ~is_set(last_op.pos)
  /\ last_op.name = "set_value" => (is_set(last_op.pos) = last_op.value)
  /\ \A p \in written : is_set(p) = plain_is_set(p)

\* A single bit written into memory that was never initialised, read back
\* after update() has stored a header in the same word.
C5_Witness ==
  /\ last_op.name = "update"
  /\ nwrites = 1
  /\ junk # 0
  /\ written = {kBlockDataWidth}
  /\ ~is_set(kBlockDataWidth)
  /\ header_of(1) # 0

\* C6: update() changes no payload bit: is_set(p) is the same before and
\* after the call for every p in [0, length), and in the first word of every
\* block the bits above the header are the same.
C6_UpdateKeepsPayload ==
  [][last_op'.name = "update" =>
       /\ \A p \in 0 .. length - 1 : is_set(p)' = is_set(p)
       /\ \A b \in 0 .. num_blocks - 1 :
            Shr(ReadWord(data, b * kNumWordsPerBlock), kBlockHeaderWidth)'
              = Shr(ReadWord(data, b * kNumWordsPerBlock), kBlockHeaderWidth)]_vars

\* update() has stored a non-zero header below a set payload bit of the same
\* word.
C6_Witness ==
  /\ last_op.name = "update"
  /\ length > kBlockDataWidth
  /\ header_of(1) # 0
  /\ is_set(kBlockDataWidth)
  /\ ~is_set(kBlockDataWidth + 1)

\* C7: set(p), unset(p) and set(p, v) change at most the payload bit of
\* position p: every other payload bit, the header of every block, the
\* superblock ranks, length, num_blocks and num_superblocks are unchanged.
C7_WriteFrame ==
  [][last_op'.name \in WriteKinds =>
       /\ \A q \in (0 .. length - 1) \ {last_op'.pos} : is_set(q)' = is_set(q)
       /\ \A b \in 0 .. num_blocks + kNumBlocksPerSuperblock - 1 :
            header_of(b)' = header_of(b)
       /\ superblock_data' = superblock_data
       /\ length' = length
       /\ num_blocks' = num_blocks
       /\ num_superblocks' = num_superblocks]_vars

\* An unset of the first payload bit of the second block, right above a
\* non-zero header and below a set bit, after the headers had been computed.
C7_Witness ==
  /\ last_op.name = "unset"
  /\ last_op.pos = kBlockDataWidth
  /\ ~is_set(kBlockDataWidth)
  /\ is_set(kBlockDataWidth + 1)
  /\ header_of(1) = kBlockDataWidth
  /\ ~rank_sync

\* C8 as stated: right after construction with a length only, every payload
\* bit and every block header is zero.
C8_AllZeroAfterConstruction ==
  last_op.name = "ctor" =>
    /\ \A p \in 0 .. length - 1 : ~is_set(p)
    /\ \A b \in 0 .. num_blocks - 1 : header_of(b) = 0

\* C8, amended: right after construction with a length only, the payload
\* bits and the header of the last block are zero; the other blocks hold
\* whatever the allocation returned.
C8_LastBlockZeroAfterConstruction ==
  (last_op.name = "ctor" /\ num_blocks > 0) =>
    /\ \A p \in (num_blocks - 1) * kBlockDataWidth .. length - 1 : ~is_set(p)
    /\ header_of(num_blocks - 1) = 0

\* A vector of several blocks right after construction whose first block
\* reads as set while its last block reads as zero.
C8_Witness ==
  /\ last_op.name = "ctor"
  /\ num_blocks > 1
  /\ is_set(0)
  /\ header_of(0) # 0
  /\ ~is_set(length - 1)

\* C9: construction with (length, fill_bit) yields a finalized vector:
\* is_set(p) = fill_bit, rank1(p) = p for ones and 0 for zeros, and a select
\* index built on it without a call of update() answers select1(k) = k - 1
\* for all-ones and select0(k) = k - 1 for all-zeros.
C9_FillConstructorFinalized ==
  last_op.name = "ctor_fill" =>
    /\ \A p \in 0 .. length - 1 :
         /\ is_set(p) = last_op.value
         /\ rank1(p) = IF last_op.value THEN p ELSE 0
    /\ sel.built =>
         \A k \in 1 .. length :
           IF last_op.value THEN select1(k) = k - 1 ELSE select0(k) = k - 1

\* An all-ones vector longer than the sampling stride and reaching into the
\* second superblock, with a select index built right after construction.
C9_Witness ==
  /\ last_op = Op("ctor_fill", 0, TRUE)
  /\ sel.built
  /\ length > sel.kStride
  /\ length > kSuperblockDataWidth + kBlockDataWidth
  /\ select1(length) = length - 1
  /\ rank1(length - 1) = length - 1

\* C10: is_set, rank0, rank1, select0 and select1 give the definitional
\* answers, hence the same answers, under every instantiation, also one
\* whose block width does not divide the superblock width.
C10_ParametricIndependence ==
  /\ \A p \in written : is_set(p) = plain_is_set(p)
  /\ Finalized =>
       \A pos \in 0 .. length - 1 :
         /\ rank1(pos) = OnesBefore(pos)
         /\ rank0(pos) = pos - OnesBefore(pos)
  /\ Selectable =>
       \A p \in 0 .. length - 1 :
         IF is_set(p) THEN select1(OnesBefore(p) + 1) = p
                      ELSE select0(p - OnesBefore(p) + 1) = p

KthSetBit(word, k) ==
  CHOOSE p \in 0 .. kWordWidth - 1 :
    /\ (word \div 2 ^ p) % 2 = 1
    /\ popcount(word % 2 ^ p) = k - 1

\* C12: for every word w and every k with 1 <= k <= popcount(w) the PDEP,
\* the binary-search and the linear-scan variant of word_select1 end and
\* return the same value, the position of the k-th set bit of w.
C12_WordSelectVariantsAgree ==
  (/\ last_query.name \in WordSelectVariants
   /\ last_query.rank <= popcount(last_query.arg)) =>
    /\ last_query.result # Undefined
    /\ last_query.result = KthSetBit(last_query.arg, last_query.rank)
    /\ word_select1_pdep(last_query.arg, last_query.rank) = last_query.result
    /\ word_select1_binary(last_query.arg, last_query.rank) = last_query.result
    /\ word_select1(last_query.arg, last_query.rank) = last_query.result

\* The binary search asked for the last set bit of a word whose top bit is
\* set.
C12_Witness ==
  /\ last_query.name = "word_select1_binary"
  /\ last_query.arg = 165
  /\ last_query.rank = popcount(165)
  /\ last_query.result = kWordWidth - 1

\* The reads of a select descent stay inside the buffers: the two samples
\* inside the sample array, the superblock ranks inside superblock_data, the
\* block headers inside the real and pad blocks (inside the real blocks for
\* the linear search), the word search inside the block the descent chose,
\* which is a real block.
ReadsInBounds(run, samples) ==
  /\ run.ended
  /\ run.sample_reads \subseteq DOMAIN samples
  /\ run.superblock_reads \subseteq DOMAIN superblock_data
  /\ run.block_reads \subseteq 0 .. num_blocks + kNumBlocksPerSuperblock - 1
  /\ \A b \in run.block_reads : b * kNumWordsPerBlock \in DOMAIN data
  /\ (~sel.kUseBinarySearch => run.block_reads \subseteq 0 .. num_blocks - 1)
  /\ run.num_block < num_blocks
  /\ run.word_reads \subseteq
       run.num_block * kNumWordsPerBlock ..
         run.num_block * kNumWordsPerBlock + kNumWordsPerBlock - 1
  /\ run.word_reads \subseteq DOMAIN data

\* C13: for every valid select query (select1(k), 1 <= k <= number of ones;
\* select0(k), 1 <= k <= number of zeros), in both search modes, every index
\* read from the sample arrays, the superblock ranks and the data buffer lies
\* inside the allocated buffer: binary-search probes reach at most the pad
\* blocks, the linear block search stays at or below block num_blocks - 1,
\* and the word search stays inside the chosen block.
C13_ValidSelectReadsInBounds ==
  Selectable =>
    /\ \A k \in 1 .. OnesBefore(length) :
         ReadsInBounds(select1_run(sel, k), sel.one_samples)
    /\ \A k \in 1 .. length - OnesBefore(length) :
         ReadsInBounds(select0_run(sel, k), sel.zero_samples)

\* A binary search whose probes read the header of a pad block, for a valid
\* select1 and a valid select0 of a vector of more than one superblock.
C13_Witness ==
  /\ Selectable
  /\ sel.kUseBinarySearch
  /\ num_superblocks > 1
  /\ \E k \in 1 .. OnesBefore(length) :
       \E b \in select1_run(sel, k).block_reads : b >= num_blocks
  /\ \E k \in 1 .. length - OnesBefore(length) :
       \E b \in select0_run(sel, k).block_reads : b >= num_blocks

\* Every read of a descent is inside an allocated buffer, and the descent
\* ends.
ReadsAllocated(run, samples) ==
  /\ run.ended
  /\ run.sample_reads \subseteq DOMAIN samples
  /\ run.superblock_reads \subseteq DOMAIN superblock_data
  /\ \A b \in run.block_reads : b * kNumWordsPerBlock \in DOMAIN data
  /\ run.word_reads \subseteq DOMAIN data

\* C14: a select query with a rank above the number of ones (select1) or of
\* zeros (select0) may read pad blocks, but it reads only inside the sample
\* array, the superblock ranks and the data buffer, and it terminates.
C14_InvalidRankReadsAllocated ==
  Selectable =>
    /\ \A k \in OnesBefore(length) + 1 .. OnesBefore(length) + MaxExcess :
         ReadsAllocated(select1_run(sel, k), sel.one_samples)
    /\ \A k \in length - OnesBefore(length) + 1 ..
                 length - OnesBefore(length) + MaxExcess :
         ReadsAllocated(select0_run(sel, k), sel.zero_samples)

MovedFrom == SvObject(TRUE, FALSE, 0, nullptr)

\* C16: a move construction, or a move assignment from a different object,
\* gives the destination the pointer, the size and the huge-page flag the
\* source had and leaves the source with a null pointer, size 0 and the flag
\* false; a self move-assignment leaves the object as it was.
C16_MoveTransfersOwnership ==
  sv.last.name \in {"move_ctor", "move_assign"} =>
    IF sv.last.dst # sv.last.src
    THEN /\ sv.objs[sv.last.dst]._ptr = sv.last.before[sv.last.src]._ptr
         /\ sv.objs[sv.last.dst]._size = sv.last.before[sv.last.src]._size
         /\ sv.objs[sv.last.dst]._huge_pages =
              sv.last.before[sv.last.src]._huge_pages
         /\ sv.objs[sv.last.src] = MovedFrom
    ELSE sv.objs = sv.last.before

\* A self move-assignment of a vector that holds a huge-page buffer.
C16_Witness ==
  /\ sv.last.name = "move_assign"
  /\ sv.last.dst = sv.last.src
  /\ sv.objs[sv.last.dst]._huge_pages
  /\ sv.objs[sv.last.dst]._size > 0
  /\ sv.objs[sv.last.dst]._ptr # nullptr

\* C17: StaticVector(n) either succeeds with storage for exactly n elements,
\* or fails with an allocation error when the allocator does not satisfy the
\* request; with large pages enabled a failed large-page mapping falls back
\* to the standard allocator without an error, and the error is raised only
\* when the standard allocation fails too.
C17_ConstructionAllocatesOrFails ==
  sv.last.name = "ctor" =>
    LET obj == sv.objs[sv.last.dst]
    IN /\ sv.last.threw <=> sv.last.malloc_failed
       /\ sv.last.malloc_failed =>
            (~sv.kUseHugePages \/ sv.last.mmap_failed)
       /\ sv.last.threw => ~obj.alive
       /\ ~sv.last.threw =>
            /\ obj.alive
            /\ obj._size = sv.last.size
            /\ obj._ptr \in DOMAIN sv.heap
            /\ sv.heap[obj._ptr].released = <<>>
            /\ sv.heap[obj._ptr].bytes >= sv.last.size * kSizeofT
            /\ (~obj._huge_pages =>
                  sv.heap[obj._ptr].bytes = sv.last.size * kSizeofT)
            /\ (obj._huge_pages <=> sv.heap[obj._ptr].via = "mmap")
       /\ (sv.last.mmap_failed /\ ~sv.last.malloc_failed) =>
            ~sv.last.threw /\ ~obj._huge_pages

\* C18: the destructor releases a buffer through the path of its
\* allocation: munmap, with the length it was mapped with, exactly when the
\* buffer came from the large-page mapping, std::free otherwise, and once;
\* also when the buffer was moved into another StaticVector.
C18_ReleaseMatchesAllocation ==
  \A p \in DOMAIN sv.heap :
    /\ Len(sv.heap[p].released) <= 1
    /\ \A i \in DOMAIN sv.heap[p].released :
         LET rel == sv.heap[p].released[i]
         IN /\ (rel.via = "munmap") <=> (sv.heap[p].via = "mmap")
            /\ rel.via = "munmap" => rel.bytes = sv.heap[p].bytes

\* A huge-page buffer and a malloc'ed buffer, each released by the
\* destructor of an object other than the one that allocated it.
C18_Witness ==
  /\ sv.last.name = "dtor"
  /\ \E p \in DOMAIN sv.heap :
       /\ sv.heap[p].via = "mmap"
       /\ Len(sv.heap[p].released) = 1
       /\ sv.heap[p].released[1].by # sv.heap[p].owner
  /\ \E p \in DOMAIN sv.heap :
       /\ sv.heap[p].via = "malloc"
       /\ Len(sv.heap[p].released) = 1
       /\ sv.heap[p].released[1].by # sv.heap[p].owner

\* Set positions in [from, to).
OnesBetween(from, to) == Cardinality({q \in from .. to - 1 : is_set(q)})

\* C19: after update(), the low kBlockHeaderWidth bits of the first word of
\* every real block b hold the number of set payload bits from the first bit
\* of the superblock of b up to the first bit of b, and superblock_data[s]
\* holds the number of set bits in [0, s * kSuperblockDataWidth) for every
\* s < num_superblocks.
C19_HeadersAndSuperblockRanks ==
  rank_sync =>
    /\ \A b \in 0 .. num_blocks - 1 :
         header_of(b) =
           OnesBetween((b \div kNumBlocksPerSuperblock) * kSuperblockDataWidth,
                       b * kBlockDataWidth)
    /\ \A s \in 0 .. num_superblocks - 1 :
         ReadWord(superblock_data, s) = OnesBefore(s * kSuperblockDataWidth)

\* update() ran on a vector of more than one superblock, with ones in both:
\* a non-zero header in the second superblock and a non-zero second
\* superblock rank.
C19_Witness ==
  /\ rank_sync
  /\ last_op.name = "update"
  /\ num_superblocks > 1
  /\ ReadWord(superblock_data, 1) > 0
  /\ \E b \in kNumBlocksPerSuperblock + 1 .. num_blocks - 1 :
       header_of(b) > 0 /\ header_of(b) < ReadWord(superblock_data, 1)

\* The padding blocks: the kNumBlocksPerSuperblock blocks after the last
\* real block.
PadBlocks == num_blocks .. num_blocks + kNumBlocksPerSuperblock - 1

\* C20 as stated: after update(), every padding block carries header value
\* 0, whatever the number of set bits in the last real superblock.
C20_PadHeadersZero ==
  rank_sync => \A p \in PadBlocks : header_of(p) = 0

\* C20, amended: after update(), the first word of a padding block that lies
\* in the superblock of the last real block holds the number of set bits of
\* that superblock; the first word of every other padding block is 0.
C20_PadHeadersCarryBlockRank ==
  rank_sync =>
    \A p \in PadBlocks :
      ReadWord(data, p * kNumWordsPerBlock) =
        IF num_blocks > 0 /\ p \div kNumBlocksPerSuperblock =
                               (num_blocks - 1) \div kNumBlocksPerSuperblock
        THEN OnesBetween((p \div kNumBlocksPerSuperblock) * kSuperblockDataWidth,
                         length)
        ELSE 0

\* update() ran on a vector whose last superblock holds ones and is not
\* full: one padding block carries their number, another one carries 0.
C20_Witness ==
  /\ rank_sync
  /\ last_op.name = "update"
  /\ \E p \in PadBlocks : header_of(p) > 0 /\ header_of(p) = rank1(length)
  /\ \E p \in PadBlocks : header_of(p) = 0


\* C21: in every state reached by construction followed by set / unset /
\* set(p, v) with p < length and update() calls, the payload bits of the last
\* real block at logical positions >= length are zero.
C21_TailOfLastBlockZero ==
  \A q \in length .. num_blocks * kBlockDataWidth - 1 : ~is_set(q)

\* The last position of a vector that does not fill its last block was set
\* and update() ran after it.
C21_Witness ==
  /\ length % kBlockDataWidth # 0
  /\ nwrites > 0
  /\ last_op.name = "update"
  /\ is_set(length - 1)
  /\ length - 1 \in written
  /\ ~is_set(length)


\* The select indexes the instantiations of the program build on the
\* finalized vector: every stride of the benchmark that is at least one
\* block of payload, with the true number of ones.
BuiltIndexes ==
  { select_ctor(TRUE, stride, count_ones) :
      stride \in {st \in BenchStrides : st >= kBlockDataWidth} }

\* A sample array is non-decreasing, holds superblock indexes, and ends with
\* the sentinel.
SamplesOrdered(samples) ==
  /\ \A i \in DOMAIN samples : \A j \in DOMAIN samples :
       i <= j => samples[i] <= samples[j]
  /\ \A i \in DOMAIN samples : samples[i] <= num_superblocks - 1
  /\ \A i \in DOMAIN samples :
       (\A j \in DOMAIN samples : j <= i) => samples[i] = num_superblocks - 1

\* C22: after the construction of a TwoLayerSelect on a non-empty finalized
\* vector, one_samples and zero_samples are non-decreasing over all their
\* entries, every entry is at most num_superblocks - 1, and the last entry of
\* each array is the sentinel num_superblocks - 1.
C22_SamplesMonotoneWithSentinel ==
  (Finalized /\ length > 0) =>
    /\ \A index \in BuiltIndexes :
         SamplesOrdered(index.one_samples) /\ SamplesOrdered(index.zero_samples)
    /\ (sel.built /\ sel_sync) =>
         SamplesOrdered(sel.one_samples) /\ SamplesOrdered(sel.zero_samples)

\* A select index whose one_samples has four or more entries that are not all
\* equal, on a vector of more than one superblock with ones and zeros.
C22_Witness ==
  /\ Finalized /\ length > 0 /\ sel.built /\ sel_sync
  /\ \E index \in BuiltIndexes :
       /\ ~(\A i \in DOMAIN index.one_samples : i < 3)
       /\ index.one_samples[0] = index.one_samples[1]
       /\ index.one_samples[1] < index.one_samples[2]
  /\ sel.zero_samples[0] < sel.zero_samples[1]


\* Position of the r-th one and of the r-th zero of the vector, and the
\* superblock a position lies in.
PosOfOne(r) ==
  CHOOSE p \in 0 .. length - 1 : is_set(p) /\ OnesBefore(p) = r - 1

PosOfZero(r) ==
  CHOOSE p \in 0 .. length - 1 : ~is_set(p) /\ p - OnesBefore(p) = r - 1

SuperblockOf(pos) == pos \div kSuperblockDataWidth

NumZeros == length - OnesBefore(length)

OnesBeforeTable == [pos \in 0 .. length |-> OnesBefore(pos)]

\* The r-th one lies in one of the superblocks lo .. hi, and fewer than r
\* ones lie before superblock lo according to superblock_data; before is
\* OnesBeforeTable.
OneInSuperblocks(before, r, lo, hi) ==
  /\ lo <= hi
  /\ hi <= num_superblocks - 1
  /\ before[lo * kSuperblockDataWidth] < r
  /\ r <= before[Min(length, (hi + 1) * kSuperblockDataWidth)]
  /\ ReadWord(superblock_data, lo) < r

ZeroInSuperblocks(before, r, lo, hi) ==
  /\ lo <= hi
  /\ hi <= num_superblocks - 1
  /\ lo * kSuperblockDataWidth - before[lo * kSuperblockDataWidth] < r
  /\ r <= Min(length, (hi + 1) * kSuperblockDataWidth)
            - before[Min(length, (hi + 1) * kSuperblockDataWidth)]
  /\ lo * kSuperblockDataWidth - ReadWord(superblock_data, lo) < r

\* C24: for every valid rank r and k = (r - 1) / stride, the superblock that
\* contains the r-th one lies in [one_samples[k], one_samples[k + 1]] and
\* superblock_data[one_samples[k]] < r; symmetrically the superblock of the
\* r-th zero lies in [zero_samples[k], zero_samples[k + 1]] and the zero rank
\* at zero_samples[k] is < r; the ranks the descent subtracts at the
\* superblock and at the block it settles on are below the rank it holds.
C24_SamplesBracketSuperblock ==
  (Finalized /\ length > 0) =>
    \A before \in {OnesBeforeTable} :
      /\ \A index \in BuiltIndexes :
           /\ \A r \in 1 .. before[length] :
                OneInSuperblocks(before, r,
                  index.one_samples[(r - 1) \div index.kStride],
                  index.one_samples[(r - 1) \div index.kStride + 1])
           /\ \A r \in 1 .. length - before[length] :
                ZeroInSuperblocks(before, r,
                  index.zero_samples[(r - 1) \div index.kStride],
                  index.zero_samples[(r - 1) \div index.kStride + 1])
      /\ (sel.built /\ sel_sync) =>
           /\ \A r \in 1 .. before[length] :
                \A run \in {select1_run(sel, r)} :
                  /\ OneInSuperblocks(before, r, run.num_superblock,
                                      run.num_superblock)
                  /\ header_of(run.num_block) <
                       r - ReadWord(superblock_data, run.num_superblock)
           /\ \A r \in 1 .. length - before[length] :
                \A run \in {select0_run(sel, r)} :
                  /\ ZeroInSuperblocks(before, r, run.num_superblock,
                                       run.num_superblock)
                  /\ (run.num_block % kNumBlocksPerSuperblock) * kBlockDataWidth
                       - header_of(run.num_block) <
                     r - (run.num_superblock * kSuperblockDataWidth
                          - ReadWord(superblock_data, run.num_superblock))

\* A rank of the second run of a stride whose two samples differ, for ones;
\* a zero whose two samples differ: the superblock search has two
\* candidates.
C24_Witness ==
  /\ Finalized /\ sel.built /\ sel_sync
  /\ \E index \in BuiltIndexes :
       /\ \E r \in index.kStride + 1 .. OnesBefore(length) :
            index.one_samples[(r - 1) \div index.kStride] <
              index.one_samples[(r - 1) \div index.kStride + 1]
       /\ \E r \in 1 .. NumZeros :
            index.zero_samples[(r - 1) \div index.kStride] <
              index.zero_samples[(r - 1) \div index.kStride + 1]


\* Number of entries of a sample array.
SizeOf(samples) == Cardinality(DOMAIN samples)

\* The select index of the run, when it is up to date, and the indexes of
\* the benchmark strides on a finalized vector.
IndexesInSync ==
  (IF sel.built /\ sel_sync THEN {sel} ELSE {})
    \cup (IF Finalized THEN BuiltIndexes ELSE {})

\* C25 as stated: one_samples has ceil(num_ones / stride) + 2 entries and
\* zero_samples has ceil(num_zeros / stride) + 2 entries, for every num_ones,
\* multiples of the stride or not.
C25_SampleArraysCeilPlusTwo ==
  \A index \in IndexesInSync : \A num_ones \in {count_ones} :
    /\ SizeOf(index.one_samples) = div_ceil(num_ones, index.kStride) + 2
    /\ SizeOf(index.zero_samples) =
         div_ceil(length - num_ones, index.kStride) + 2

\* C25, amended: one_samples has floor(num_ones / stride) + 2 entries and
\* zero_samples has floor(num_zeros / stride) + 2 entries.
C25_SampleArraysFloorPlusTwo ==
  \A index \in IndexesInSync : \A num_ones \in {count_ones} :
    /\ SizeOf(index.one_samples) = (num_ones \div index.kStride) + 2
    /\ SizeOf(index.zero_samples) =
         ((length - num_ones) \div index.kStride) + 2

\* A select index built for more ones than one stride, not a multiple of
\* the stride, and for fewer zeros than one stride.
C25_Witness ==
  /\ sel.built /\ sel_sync
  /\ count_ones > sel.kStride
  /\ count_ones % sel.kStride # 0
  /\ length - count_ones > 0
  /\ SizeOf(sel.one_samples) = 3
  /\ SizeOf(sel.zero_samples) = 2


\* C26: update() can be repeated. After a first update(), writes followed by
\* another update() make rank1(pos) and rank0(pos) the counts of the current
\* contents for every pos in [0, length); an update() that follows an
\* update() without a write in between leaves data and superblock_data as
\* they are.
C26_UpdateRepeatable ==
  /\ []((Finalized /\ nwrites > 0 /\ last_op.name = "update") =>
          \A before \in {OnesBeforeTable} :
            \A pos \in 0 .. length - 1 :
              /\ rank1(pos) = before[pos]
              /\ rank0(pos) = pos - before[pos])
  /\ []((rank_sync /\ length > 0) =>
          \A up \in {update_of(data, superblock_data, num_blocks)} :
            up.data = data /\ up.superblock_data = superblock_data)
  /\ [][(rank_sync /\ last_op'.name = "update") =>
          (data' = data /\ superblock_data' = superblock_data)]_vars

\* A vector of two superblocks built all ones by the fill constructor, which
\* calls update(); one bit of the first superblock was cleared and update()
\* was called again.
C26_Witness ==
  /\ last_op.name = "update"
  /\ nwrites = 1
  /\ rank_sync
  /\ num_superblocks > 1
  /\ OnesBefore(length) = length - 1
  /\ ~is_set(0)
  /\ ReadWord(superblock_data, 1) = kSuperblockDataWidth - 1


\* C27: when update() is called on an existing select index after the vector
\* was written and finalized again, every write of update() is inside the
\* sample arrays allocated at construction, and afterwards select1(k) and
\* select0(k) are the positions of the k-th one and the k-th zero of the new
\* contents for every valid k.
C27_UpdateOfExistingIndex ==
  (last_op.name = "select_update" /\ nwrites > 0 /\ Finalized /\ length > 0) =>
    \A cur \in {select_update_cursors(sel.kStride)} :
      /\ cur.cur_one \in DOMAIN sel.one_samples
      /\ cur.cur_zero \in DOMAIN sel.zero_samples
      /\ \A before \in {OnesBeforeTable} :
           \A p \in 0 .. length - 1 :
             IF is_set(p) THEN select1(before[p] + 1) = p
                          ELSE select0(p - before[p] + 1) = p


\* C28: over constructions, move constructions, move assignments and
\* destructions of StaticVector objects no buffer is released twice, and once
\* every object is destroyed every buffer that was allocated has been released
\* exactly once.
C28_EveryBufferReleasedOnce ==
  /\ \A p \in DOMAIN sv.heap : Len(sv.heap[p].released) <= 1
  /\ (\A o \in SvNames : ~sv.objs[o].alive) =>
       \A p \in DOMAIN sv.heap : Len(sv.heap[p].released) = 1


\* The sample arrays as the constructor allocates them for num_ones ones,
\* every entry holding the mark Undefined, after update().
SamplesFromUndefined(stride, num_ones) ==
  select_update_of([i \in 0 .. ((length - num_ones) \div stride) + 1 |-> Undefined],
                   [i \in 0 .. (num_ones \div stride) + 1 |-> Undefined],
                   stride)

AcceptedStrides == {st \in 2 .. 64 : st % 2 = 0}

\* C30: for every stride the class accepts, strides below the block data
\* width included, an index built on a finalized vector with the true number
\* of ones answers select1(k) with the position of the k-th one and select0(k)
\* with the position of the k-th zero, for every valid k.
C30_SelectCorrectForEveryStride ==
  (Finalized /\ length > 0) =>
    \A before \in {OnesBeforeTable} :
      \A stride \in AcceptedStrides :
        \A index \in {select_ctor(TRUE, stride, before[length])} :
          \A p \in 0 .. length - 1 :
            IF is_set(p) THEN select1_of(index, before[p] + 1) = p
                         ELSE select0_of(index, p - before[p] + 1) = p

====
